---- MODULE Spec2Model ----
(***************************************************************************)
(* The save-queue delivery subsystem of the extension's background service *)
(* worker (src/extension/background/service-worker.ts): capture submit,    *)
(* duplicate filter, durable queue, delivery attempts with retry timers,   *)
(* startup/online replay and the SAVE_RESULT broadcasts.                   *)
(*                                                                         *)
(* The queue store and the duplicate filter (../shared/storage) are        *)
(* modelled from the specification (sections 3, 4.1 and 4.2); every store  *)
(* operation is one atomic step. The worker is modelled statement by       *)
(* statement between its await points.                                     *)
(***************************************************************************)
EXTENDS Integers, Sequences, FiniteSets, Bags, TLC

----------------------------------------------------------------------------
\* Bounds of the model.

\* Number of environment events (submit, manual retry, discard, online,
\* restart, clock tick) in one behaviour.
MaxEvents == 2

\* CONFIG.MAX_QUEUE_SIZE is 100 in the source; the model scales it down.
MAX_QUEUE_SIZE == 1

\* Longest queue a summary is computed of (one more than it reports).
MaxSummaryQueue == 11

\* Number of messages (responses to its submits, SAVE_RESULT broadcasts) a
\* capture surface receives in one behaviour.
MaxMessages == 7

----------------------------------------------------------------------------
\* Program constants (CONFIG).

MAX_RETRIES == 3

INITIAL_RETRY_DELAY_MS == 1000

MAX_RETRY_DELAY_MS == 30000

MIN_SELECTION_LENGTH == 10

MAX_SELECTION_LENGTH == 10000

\* handleSyncState: queue.slice(-10) and text.slice(0, 100).
RECENT_SAVES == 10

TEXT_PREVIEW == 100

\* Recency window of the duplicate filter, in clock ticks.
DUPLICATE_WINDOW == 1

----------------------------------------------------------------------------
VARIABLES
    queue,          \* chrome.storage.session: Seq of QueueItem, insertion order
    nextId,         \* next queue id handed out by enqueue
    processingIds,  \* the worker's in-memory set of ids being processed
    tasks,          \* bag of running processQueueItem invocations
    timers,         \* bag of ids with a pending setTimeout(retryQueueItem)
    replays,        \* running processPendingOnStartup invocations
    calls,          \* handleSaveSnippet invocations and their replies
    filter,         \* duplicate filter: set of [key, at]
    now,            \* clock
    events,         \* environment events so far
    saveResults,    \* per id: SAVE_RESULT broadcasts [ok, fail]
    skipped,        \* ids for which a trigger returned at the processingIds guard
    recovery,       \* per id found pending/failed at worker start: attempts
                    \* the replays of this worker started for it
    missed,         \* <<operation, id>>: operations that found their id gone
    scheduled,      \* per id: delay of the last setTimeout(retryQueueItem), 0 = none
    surface         \* a capture surface (content script): its pendingSaves,
                    \* what its save button shows and, per queueId, how
                    \* often it reacted to a SAVE_RESULT

vars == <<queue, nextId, processingIds, tasks, timers, replays, calls,
          filter, now, events, saveResults, skipped, recovery, missed,
          scheduled, surface>>

\* Queue ids: one entry left by an earlier worker, one per submit.
Ids == 1..(MaxEvents + 1)

NoError == ""

----------------------------------------------------------------------------
\* Inputs.

Text(body, len) == [body |-> body, len |-> len]

\* Captured texts: empty, one below the minimum, the minimum, the maximum,
\* one above the maximum.
Texts ==
    { Text("", 0), Text("a", MIN_SELECTION_LENGTH - 1),
      Text("a", MIN_SELECTION_LENGTH), Text("b", MAX_SELECTION_LENGTH),
      Text("b", MAX_SELECTION_LENGTH + 1) }

Sources == {"https://example.com/a"}

\* What the remote store can answer to one POST.
\*   kind "ok":    2xx with the created snippet
\*   kind "http":  non-2xx; json = the body parses as JSON; error = its
\*                 `error` field ("" when absent)
\*   kind "throw": fetch rejects with an exception of that name and message
Http(status, json, error) ==
    [kind |-> "http", status |-> status, json |-> json, error |-> error,
     name |-> "", message |-> ""]

Throw(name, message) ==
    [kind |-> "throw", status |-> 0, json |-> FALSE, error |-> "",
     name |-> name, message |-> message]

Responses ==
    { [kind |-> "ok", status |-> 201, json |-> TRUE, error |-> "",
       name |-> "", message |-> ""],
      Http(400, TRUE, ""),
      Http(400, TRUE, "Invalid network address"),
      Http(500, TRUE, ""),
      Http(500, TRUE, "Internal Server Error"),
      Throw("AbortError", "signal is aborted without reason"),
      Throw("TypeError", "Failed to fetch") }

----------------------------------------------------------------------------
\* Pure helpers of the worker.

\* String.prototype.includes
Includes(s, pat) ==
    \E i \in 1..(Len(s) - Len(pat) + 1) : SubSeq(s, i, i + Len(pat) - 1) = pat

\* The exception the catch block of processQueueItem sees for a response
\* that is not ok (lines 138-141) or for a rejected fetch.
ThrownError(r) ==
    IF r.kind = "throw"
    THEN [name |-> r.name, message |-> r.message]
    ELSE LET body == IF r.json THEN r.error ELSE "Unknown error"
         IN  [name |-> "Error",
              message |-> IF body # "" THEN body
                          ELSE "HTTP " \o ToString(r.status)]

isRetryableError(error) ==
    \/ error.name = "AbortError"
    \/ Includes(error.message, "network")
    \/ Includes(error.message, "HTTP 5")

\* (Mutant of the validation: the minimum length itself is refused.)
ValidationError_OffByOne(text) ==
    IF text.len = 0 \/ text.len <= MIN_SELECTION_LENGTH
    THEN "Selection too short (minimum 10 characters)"
    ELSE IF text.len > MAX_SELECTION_LENGTH
         THEN "Selection too long (maximum 10,000 characters)"
         ELSE NoError

\* handleSaveSnippet's validation (lines 87-93): "" when the text passes.
ValidationError(text) ==
    IF text.len = 0 \/ text.len < MIN_SELECTION_LENGTH
    THEN "Selection too short (minimum 10 characters)"
    ELSE IF text.len > MAX_SELECTION_LENGTH
         THEN "Selection too long (maximum 10,000 characters)"
         ELSE NoError

\* (Mutant of the guard: removed, every call starts an attempt.)
AlreadyProcessing_Never(id) == FALSE

\* The processingIds guard at the head of processQueueItem.
AlreadyProcessing(id) == id \in processingIds

----------------------------------------------------------------------------
\* The queue store and the duplicate filter (from the specification).

QueueIds(q) == { q[i].id : i \in 1..Len(q) }

Entry(q, id) == CHOOSE e \in { q[i] : i \in 1..Len(q) } : e.id = id

NewItem(id, text, src) ==
    [id |-> id, status |-> "pending", retryCount |-> 0,
     lastError |-> NoError, payload |-> [text |-> text, sourceUrl |-> src]]

QueueFull(q) == Len(q) >= MAX_QUEUE_SIZE

dequeue(q, id) == SelectSeq(q, LAMBDA e : e.id # id)

\* (Mutant of the store: a status update for an absent id stores an entry.)
updateItemStatus_Upsert(q, id, status, err) ==
    IF id \in QueueIds(q)
    THEN [ i \in 1..Len(q) |->
             IF q[i].id # id THEN q[i] ELSE [q[i] EXCEPT !.status = status] ]
    ELSE Append(q, [id |-> id, status |-> status, retryCount |-> 0,
                    lastError |-> NoError,
                    payload |-> [text |-> Text("a", MIN_SELECTION_LENGTH),
                                 sourceUrl |-> "https://example.com/a"]])

\* (Mutant of the store: the entry is written back with the preview of its
\* text.)
updateItemStatus_Rebuilds(q, id, status, err) ==
    [ i \in 1..Len(q) |->
        IF q[i].id # id THEN q[i]
        ELSE [ q[i] EXCEPT
                 !.status = status,
                 !.lastError = IF err # NoError THEN "recorded" ELSE @,
                 !.retryCount = IF status = "pending" /\ err # NoError
                                THEN @ + 1 ELSE @,
                 !.payload.text = Text(@.body, IF @.len < 100 THEN @.len
                                               ELSE 100) ] ]

\* Sets status (and lastError when given); a return to pending after a
\* failure counts one more attempt. No-op when the id is absent.
\* lastError is written here and read by nothing in the worker: the model
\* stores whether a reason is recorded, not its text.
updateItemStatus(q, id, status, err) ==
    [ i \in 1..Len(q) |->
        IF q[i].id # id THEN q[i]
        ELSE [ q[i] EXCEPT
                 !.status = status,
                 !.lastError = IF err # NoError THEN "recorded" ELSE @,
                 !.retryCount = IF status = "pending" /\ err # NoError
                                THEN @ + 1 ELSE @ ] ]

getPendingItems(q) ==
    SelectSeq(q, LAMBDA e : e.status \in {"pending", "failed"})

FilterKey(text, src) == <<text.body, src>>

Fresh(f, t) == { e \in f : t - e.at < DUPLICATE_WINDOW }

isDuplicate(f, text, src, t) ==
    \E e \in Fresh(f, t) : e.key = FilterKey(text, src)

Record(f, text, src, t) ==
    Fresh(f, t) \cup {[key |-> FilterKey(text, src), at |-> t]}

----------------------------------------------------------------------------
\* Bookkeeping of the model (no counterpart in the worker's memory).

\* The entries a worker finds pending or failed when it starts, none of them
\* replayed yet.
LeftAtStart(q) ==
    [id \in QueueIds(getPendingItems(q)) |-> 0]

\* A replay started an attempt for id.
Replayed(id) ==
    IF id \in DOMAIN recovery
    THEN [recovery EXCEPT ![id] = @ + 1] ELSE recovery

\* A capture surface that has submitted nothing.
NoSurface ==
    [pendingSaves |-> {}, reactions |-> [i \in Ids |-> 0], button |-> "idle"]

\* The operation op was issued for id; noted when the queue has no such entry.
Missed(op, id) ==
    IF id \in QueueIds(queue) THEN missed ELSE missed \cup {<<op, id>>}

\* Math.min(INITIAL_RETRY_DELAY_MS * Math.pow(2, retryCount),
\*          MAX_RETRY_DELAY_MS)
RetryDelay(retryCount) ==
    IF INITIAL_RETRY_DELAY_MS * (2 ^ retryCount) < MAX_RETRY_DELAY_MS
    THEN INITIAL_RETRY_DELAY_MS * (2 ^ retryCount)
    ELSE MAX_RETRY_DELAY_MS

----------------------------------------------------------------------------
Init ==
    /\ queue = <<>>
    /\ nextId = 1
    /\ processingIds = {}
    /\ tasks = EmptyBag
    /\ timers = EmptyBag
    /\ replays = <<>>
    /\ calls = <<>>
    /\ filter = {}
    /\ now = 0
    /\ events = 0
    /\ saveResults = [i \in Ids |-> [ok |-> 0, fail |-> 0]]
    /\ skipped = {}
    /\ recovery = <<>>
    /\ missed = {}
    /\ scheduled = [i \in Ids |-> 0]
    /\ surface = NoSurface

----------------------------------------------------------------------------
\* processQueueItem: the synchronous head (guard, processingIds.add) and the
\* steps between its await points.

NewTask(item, owner) ==
    [id |-> item.id, rc |-> item.retryCount, pc |-> "saving", owner |-> owner]

\* A call processQueueItem(item) that nothing awaits (owner 0).
ProcessCall(item) ==
    IF AlreadyProcessing(item.id)
    THEN /\ skipped' = skipped \cup {item.id}
         /\ UNCHANGED <<processingIds, tasks>>
    ELSE /\ processingIds' = processingIds \cup {item.id}
         /\ tasks' = tasks (+) SetToBag({NewTask(item, 0)})
         /\ UNCHANGED skipped

Running(pc) == { t \in BagToSet(tasks) : t.pc = pc }

Move(t, pc) ==
    (tasks (-) SetToBag({t})) (+) SetToBag({[t EXCEPT !.pc = pc]})

\* The replay r continues with its next item, or ends.
Advance(rs, r) ==
    IF Len(rs[r].items) > 1
    THEN [rs EXCEPT ![r] = [items |-> Tail(rs[r].items), pc |-> "sleep"]]
    ELSE [x \in (DOMAIN rs) \ {r} |-> rs[x]]

\* (Mutant of the finally block: the id is not released.)
Finish_NoRelease(t) ==
    /\ processingIds' = processingIds
    /\ tasks' = tasks (-) SetToBag({t})
    /\ replays' = IF t.owner \in DOMAIN replays
                  THEN Advance(replays, t.owner) ELSE replays

\* The finally block, and the return to whoever awaits the invocation.
Finish(t) ==
    /\ processingIds' = processingIds \ {t.id}
    /\ tasks' = tasks (-) SetToBag({t})
    /\ replays' = IF t.owner \in DOMAIN replays
                  THEN Advance(replays, t.owner) ELSE replays

\* isRetryableError(error) for the exception each answer of the remote turns
\* into.
Retryable == [r \in Responses |-> isRetryableError(ThrownError(r))]

\* The branch the catch block takes (line 173), with the retryCount of the
\* item object the invocation was given.
ShouldRetry(rc, r) == rc < MAX_RETRIES /\ Retryable[r]

\* (Mutant of the start of an attempt: the POST is sent without the entry
\* being marked saving.)
StepSaving_Skipped(t) ==
    /\ t \in Running("saving")
    /\ tasks' = Move(t, "fetch")
    /\ UNCHANGED <<queue, nextId, processingIds, timers, replays, calls,
                   filter, now, events, saveResults, skipped>>
    /\ UNCHANGED <<recovery, missed, scheduled>>
    /\ UNCHANGED surface

\* await updateItemStatus(item.id, "saving"), then the POST is sent.
StepSaving(t) ==
    /\ t \in Running("saving")
    /\ queue' = updateItemStatus(queue, t.id, "saving", NoError)
    /\ tasks' = Move(t, "fetch")
    /\ UNCHANGED <<nextId, processingIds, timers, replays, calls, filter,
                   now, events, saveResults, skipped>>
    /\ UNCHANGED <<recovery, missed, scheduled>>
    /\ UNCHANGED surface

\* The fetch settles (a response, a rejection, or the 30 s abort) and the
\* store operation awaited next completes. While the worker waits for either
\* the entry is stored as it was and its id is in processingIds, so the two
\* awaits are one step.

\* Response ok: await dequeue(item.id), then the success SAVE_RESULT.
StepSuccess(t, r) ==
    /\ t \in Running("fetch")
    /\ r.kind = "ok"
    /\ queue' = dequeue(queue, t.id)
    /\ saveResults' = [saveResults EXCEPT ![t.id].ok = @ + 1]
    /\ tasks' = Move(t, "sync")
    /\ UNCHANGED <<nextId, processingIds, timers, replays, calls, filter,
                   now, events, skipped>>
    /\ UNCHANGED <<recovery, missed, scheduled>>
    /\ UNCHANGED surface

\* (Mutant of the retry branch: the entry returns to pending without the
\* failure being passed to the store.)
StepRetry_NoReason(t, r) ==
    /\ t \in Running("fetch")
    /\ r.kind # "ok"
    /\ ShouldRetry(t.rc, r)
    /\ queue' = updateItemStatus(queue, t.id, "pending", NoError)
    /\ timers' = timers (+) SetToBag({t.id})
    /\ Finish(t)
    /\ UNCHANGED <<nextId, calls, filter, now, events, saveResults, skipped>>
    /\ missed' = Missed("updateItemStatus", t.id)
    /\ scheduled' = [scheduled EXCEPT ![t.id] = RetryDelay(t.rc)]
    /\ UNCHANGED recovery
    /\ UNCHANGED surface

\* Retry branch: await updateItemStatus(item.id, "pending", msg), setTimeout,
\* finally.
StepRetry(t, r) ==
    /\ t \in Running("fetch")
    /\ r.kind # "ok"
    /\ ShouldRetry(t.rc, r)
    /\ queue' = updateItemStatus(queue, t.id, "pending", ThrownError(r).message)
    /\ timers' = timers (+) SetToBag({t.id})
    /\ Finish(t)
    /\ UNCHANGED <<nextId, calls, filter, now, events, saveResults, skipped>>
    /\ missed' = Missed("updateItemStatus", t.id)
    /\ scheduled' = [scheduled EXCEPT ![t.id] = RetryDelay(t.rc)]
    /\ UNCHANGED recovery
    /\ UNCHANGED surface

\* (Mutant of the else branch: the entry is dropped instead of marked.)
StepFail_Drops(t, r) ==
    /\ t \in Running("fetch")
    /\ r.kind # "ok"
    /\ ~ShouldRetry(t.rc, r)
    /\ queue' = dequeue(queue, t.id)
    /\ saveResults' = [saveResults EXCEPT ![t.id].fail = @ + 1]
    /\ tasks' = Move(t, "sync")
    /\ UNCHANGED <<nextId, processingIds, timers, replays, calls, filter,
                   now, events, skipped>>
    /\ missed' = Missed("updateItemStatus", t.id)
    /\ UNCHANGED <<recovery, scheduled>>
    /\ UNCHANGED surface

\* (Mutant of the else branch: the failure is broadcast while the entry is
\* still stored as saving.)
StepFail_Unmarked(t, r) ==
    /\ t \in Running("fetch")
    /\ r.kind # "ok"
    /\ ~ShouldRetry(t.rc, r)
    /\ saveResults' = [saveResults EXCEPT ![t.id].fail = @ + 1]
    /\ tasks' = Move(t, "sync")
    /\ UNCHANGED <<queue, nextId, processingIds, timers, replays, calls,
                   filter, now, events, skipped>>
    /\ missed' = Missed("updateItemStatus", t.id)
    /\ UNCHANGED <<recovery, scheduled>>
    /\ UNCHANGED surface

\* Else branch: await updateItemStatus(item.id, "failed", msg), then the
\* failure SAVE_RESULT.
StepFail(t, r) ==
    /\ t \in Running("fetch")
    /\ r.kind # "ok"
    /\ ~ShouldRetry(t.rc, r)
    /\ queue' = updateItemStatus(queue, t.id, "failed", ThrownError(r).message)
    /\ saveResults' = [saveResults EXCEPT ![t.id].fail = @ + 1]
    /\ tasks' = Move(t, "sync")
    /\ UNCHANGED <<nextId, processingIds, timers, replays, calls, filter,
                   now, events, skipped>>
    /\ missed' = Missed("updateItemStatus", t.id)
    /\ UNCHANGED <<recovery, scheduled>>
    /\ UNCHANGED surface

\* The response headers arrive, fetchWithRetry returns and its finally block
\* clears the 30 s abort timer (line 239); the body never completes, so the
\* await of response.json() (line 139 or 143) never settles. No step leads
\* out of "body".
StepStall(t) ==
    /\ t \in Running("fetch")
    /\ tasks' = Move(t, "body")
    /\ UNCHANGED <<queue, nextId, processingIds, timers, replays, calls,
                   filter, now, events, saveResults, skipped>>
    /\ UNCHANGED <<recovery, missed, scheduled>>
    /\ UNCHANGED surface

\* A store operation the attempt awaits rejects (the session storage fails),
\* and so does the updateItemStatus of the catch block: the exception leaves
\* processQueueItem through finally. A replay that awaits the invocation
\* ends with it.
StepStoreError(t) ==
    /\ t \in Running("saving") \cup Running("fetch") \cup Running("sync")
    /\ processingIds' = processingIds \ {t.id}
    /\ tasks' = tasks (-) SetToBag({t})
    /\ replays' = [x \in (DOMAIN replays) \ {t.owner} |-> replays[x]]
    /\ UNCHANGED <<queue, nextId, timers, calls, filter, now, events,
                   saveResults, skipped>>
    /\ UNCHANGED <<recovery, missed, scheduled>>
    /\ UNCHANGED surface

\* await handleSyncState(), the STATE_UPDATE broadcast, then finally.
StepSync(t) ==
    /\ t \in Running("sync")
    /\ Finish(t)
    /\ UNCHANGED <<queue, nextId, timers, calls, filter, now, events,
                   saveResults, skipped>>
    /\ UNCHANGED <<recovery, missed, scheduled>>
    /\ UNCHANGED surface

----------------------------------------------------------------------------
\* handleSaveSnippet.

NoReply == [status |-> "none", queueId |-> 0, error |-> NoError]

ErrorReply(msg) == [status |-> "error", queueId |-> 0, error |-> msg]

\* One invocation: its arguments, when it arrived, whether the worker that
\* received it is still the running one, where it stands and what it replied.
Call(text, src, pc, reply) ==
    [text |-> text, src |-> src, at |-> now, live |-> TRUE, pc |-> pc,
     reply |-> reply]

\* SAVE_SNIPPET arrives: validation, then the duplicate check.
Submit(text, src) ==
    /\ events < MaxEvents
    /\ events' = events + 1
    /\ IF ValidationError(text) # NoError
       THEN /\ calls' = Append(calls, Call(text, src, "done",
                                           ErrorReply(ValidationError(text))))
            /\ UNCHANGED filter
       ELSE IF isDuplicate(filter, text, src, now)
            THEN /\ calls' = Append(calls, Call(text, src, "done",
                        ErrorReply("This snippet was already saved recently")))
                 /\ filter' = Fresh(filter, now)
            ELSE /\ calls' = Append(calls, Call(text, src, "enq", NoReply))
                 /\ filter' = Record(filter, text, src, now)
    /\ UNCHANGED <<queue, nextId, processingIds, tasks, timers, replays, now, saveResults, skipped>>
    /\ UNCHANGED <<recovery, missed, scheduled>>
    /\ UNCHANGED surface

\* (Mutant of handleSaveSnippet: the capacity error is reported, but the
\* capture is processed all the same.)
SubmitEnqueue_StartsAnyway(k) ==
    /\ k \in DOMAIN calls
    /\ calls[k].pc = "enq"
    /\ LET item == NewItem(nextId, calls[k].text, calls[k].src)
       IN  /\ ProcessCall(item)
           /\ nextId' = nextId + 1
           /\ IF QueueFull(queue)
              THEN /\ calls' = [calls EXCEPT
                                  ![k].pc = "done",
                                  ![k].reply = ErrorReply("Queue is full")]
                   /\ UNCHANGED queue
              ELSE /\ queue' = Append(queue, item)
                   /\ calls' = [calls EXCEPT
                                  ![k].pc = "done",
                                  ![k].reply = [status |-> "pending",
                                                queueId |-> item.id,
                                                error |-> NoError]]
    /\ UNCHANGED <<timers, replays, filter, now, events, saveResults>>
    /\ UNCHANGED <<recovery, missed, scheduled>>
    /\ UNCHANGED surface

\* (Mutant of handleSaveSnippet: the entry is stored without the capacity
\* check.)
SubmitEnqueue_Unbounded(k) ==
    /\ k \in DOMAIN calls
    /\ calls[k].pc = "enq"
    /\ LET item == NewItem(nextId, calls[k].text, calls[k].src)
       IN  /\ queue' = Append(queue, item)
           /\ nextId' = nextId + 1
           /\ ProcessCall(item)
           /\ calls' = [calls EXCEPT
                          ![k].pc = "done",
                          ![k].reply = [status |-> "pending",
                                        queueId |-> item.id,
                                        error |-> NoError]]
    /\ UNCHANGED <<timers, replays, filter, now, events, saveResults>>
    /\ UNCHANGED <<recovery, missed, scheduled>>
    /\ UNCHANGED surface

\* await enqueue({payload}); then processQueueItem(queueItem) is started and
\* the pending reply returned. A full queue makes enqueue throw, which the
\* message listener turns into an error reply.
SubmitEnqueue(k) ==
    /\ k \in DOMAIN calls
    /\ calls[k].pc = "enq"
    /\ IF QueueFull(queue)
       THEN /\ calls' = [calls EXCEPT ![k].pc = "done",
                                      ![k].reply = ErrorReply("Queue is full")]
            /\ UNCHANGED <<queue, nextId, processingIds, tasks, skipped>>
       ELSE LET item == NewItem(nextId, calls[k].text, calls[k].src)
            IN  /\ queue' = Append(queue, item)
                /\ nextId' = nextId + 1
                /\ ProcessCall(item)
                /\ calls' = [calls EXCEPT
                               ![k].pc = "done",
                               ![k].reply = [status |-> "pending",
                                             queueId |-> item.id,
                                             error |-> NoError]]
    /\ UNCHANGED <<timers, replays, filter, now, events, saveResults>>
    /\ UNCHANGED <<recovery, missed, scheduled>>
    /\ UNCHANGED surface

----------------------------------------------------------------------------
\* retryQueueItem, from a retry timer or from RETRY_FAILED.

\* The queue ids a control surface can have seen.
Issued == 1..(nextId - 1)

\* (Mutant of retryQueueItem: the item is processed without looking it up.)
retryQueueItem_NoCheck(id) ==
    ProcessCall([id |-> id, retryCount |-> 0])

retryQueueItem(id) ==
    IF /\ id \in QueueIds(queue)
       /\ Entry(queue, id).status \in {"pending", "failed"}
    THEN ProcessCall(Entry(queue, id))
    ELSE UNCHANGED <<processingIds, tasks, skipped>>

TimerFire(id) ==
    /\ BagIn(id, timers)
    /\ timers' = timers (-) SetToBag({id})
    /\ retryQueueItem(id)
    /\ UNCHANGED <<queue, nextId, replays, calls, filter, now, events,
                   saveResults>>
    /\ missed' = Missed("timer", id)
    /\ UNCHANGED <<recovery, scheduled>>
    /\ UNCHANGED surface

ManualRetry(id) ==
    /\ events < MaxEvents
    /\ events' = events + 1
    /\ id \in Issued
    /\ retryQueueItem(id)
    /\ UNCHANGED <<queue, nextId, timers, replays, calls, filter, now,
                   saveResults>>
    /\ UNCHANGED <<recovery, missed, scheduled>>
    /\ UNCHANGED surface

\* CLEAR_FAILED: dequeue(queueId), whatever the entry's state.
Discard(id) ==
    /\ events < MaxEvents
    /\ events' = events + 1
    /\ id \in Issued
    /\ queue' = dequeue(queue, id)
    /\ UNCHANGED <<nextId, processingIds, tasks, timers, replays, calls,
                   filter, now, saveResults, skipped>>
    /\ UNCHANGED <<recovery, missed, scheduled>>
    /\ UNCHANGED surface

----------------------------------------------------------------------------
\* processPendingOnStartup, at startup and on every online event.

FreeReplay == CHOOSE n \in 1..(MaxEvents + 1) : n \notin DOMAIN replays

\* What an invocation keeps of an item object it was handed: the fields
\* processQueueItem reads besides the payload, which never changes.
Held(items) ==
    [i \in 1..Len(items) |->
        [id |-> items[i].id, retryCount |-> items[i].retryCount]]

\* const pending = await getPendingItems()
StartReplay(rs, q) ==
    IF getPendingItems(q) = <<>> THEN rs
    ELSE [x \in (DOMAIN rs) \cup {FreeReplay} |->
            IF x = FreeReplay
            THEN [items |-> Held(getPendingItems(q)), pc |-> "sleep"]
            ELSE rs[x]]

Online ==
    /\ events < MaxEvents
    /\ events' = events + 1
    /\ replays' = StartReplay(replays, queue)
    /\ UNCHANGED <<queue, nextId, processingIds, tasks, timers, calls, filter,
                   now, saveResults, skipped>>
    /\ UNCHANGED <<recovery, missed, scheduled>>
    /\ UNCHANGED surface

\* The 500 ms stagger elapsed: await processQueueItem(item).
ReplayWake(r) ==
    /\ r \in DOMAIN replays
    /\ replays[r].pc = "sleep"
    /\ LET item == Head(replays[r].items)
       IN  IF AlreadyProcessing(item.id)
           THEN /\ skipped' = skipped \cup {item.id}
                /\ replays' = Advance(replays, r)
                /\ UNCHANGED <<processingIds, tasks, recovery>>
           ELSE /\ processingIds' = processingIds \cup {item.id}
                /\ tasks' = tasks (+) SetToBag({NewTask(item, r)})
                /\ replays' = [replays EXCEPT ![r].pc = "wait"]
                /\ recovery' = Replayed(item.id)
                /\ UNCHANGED skipped
    /\ UNCHANGED <<queue, nextId, timers, calls, filter, now, events,
                   saveResults>>
    /\ UNCHANGED <<missed, scheduled>>
    /\ UNCHANGED surface

\* The service worker is stopped and started again: everything in memory is
\* gone, the session storage stays, and startup recovery runs.
Restart ==
    /\ events < MaxEvents
    /\ events' = events + 1
    /\ processingIds' = {}
    /\ tasks' = EmptyBag
    /\ timers' = EmptyBag
    /\ filter' = {}
    /\ calls' = [k \in DOMAIN calls |->
                   [calls[k] EXCEPT !.live = FALSE,
                                    !.pc = IF @ = "enq" THEN "dead" ELSE @]]
    /\ replays' = StartReplay(<<>>, queue)
    /\ UNCHANGED <<queue, nextId, now, saveResults, skipped>>
    /\ recovery' = LeftAtStart(queue)
    /\ UNCHANGED <<missed, scheduled>>
    /\ UNCHANGED surface

Tick ==
    /\ events < MaxEvents
    /\ events' = events + 1
    /\ now' = now + 1
    /\ UNCHANGED <<queue, nextId, processingIds, tasks, timers, replays,
                   calls, filter, saveResults, skipped>>
    /\ UNCHANGED <<recovery, missed, scheduled>>
    /\ UNCHANGED surface

----------------------------------------------------------------------------
Next ==
    \/ \E text \in Texts, src \in Sources : Submit(text, src)
    \/ \E k \in DOMAIN calls : SubmitEnqueue(k)
    \/ \E t \in BagToSet(tasks) : StepSaving(t)
    \/ \E t \in BagToSet(tasks), r \in Responses : StepSuccess(t, r)
    \/ \E t \in BagToSet(tasks), r \in Responses : StepRetry(t, r)
    \/ \E t \in BagToSet(tasks), r \in Responses : StepFail(t, r)
    \/ \E t \in BagToSet(tasks) : StepSync(t)
    \/ \E t \in BagToSet(tasks) : StepStall(t)
    \/ \E t \in BagToSet(tasks) : StepStoreError(t)
    \/ \E id \in Ids : TimerFire(id)
    \/ \E id \in Ids : ManualRetry(id)
    \/ \E id \in Ids : Discard(id)
    \/ Online
    \/ \E r \in DOMAIN replays : ReplayWake(r)
    \/ Restart
    \/ Tick

Spec == Init /\ [][Next]_vars

\* What the event loop guarantees: a store operation that was issued
\* completes, a request gets its response headers or is rejected (at the
\* latest by the 30 s abort), a timer that was set fires. Nothing is assumed
\* of the environment, and nothing of a response body.
WorkerStep(id) ==
    \/ \E t \in BagToSet(tasks) : t.id = id /\ StepSaving(t)
    \/ \E t \in BagToSet(tasks), r \in Responses :
         t.id = id /\ (StepSuccess(t, r) \/ StepRetry(t, r) \/ StepFail(t, r))
    \/ \E t \in BagToSet(tasks) : t.id = id /\ StepSync(t)
    \/ TimerFire(id)

Fairness ==
    /\ \A id \in Ids : WF_vars(WorkerStep(id))
    /\ WF_vars(\E k \in DOMAIN calls : SubmitEnqueue(k))
    /\ WF_vars(\E r \in DOMAIN replays : ReplayWake(r))

FairSpec == Spec /\ Fairness

\* The worker starts on a session store that an earlier worker left: one
\* entry, enqueued by that worker and left as it was when the worker stopped
\* (waiting for its retry timer or first attempt, in the middle of an
\* attempt, or marked failed after an HTTP 400). Startup recovery has just
\* read the store.
Leftover ==
    { [NewItem(1, Text("b", MAX_SELECTION_LENGTH), "https://example.com/a")
         EXCEPT !.status = st,
                !.lastError = IF st = "failed" THEN "recorded" ELSE NoError]
      : st \in {"pending", "saving", "failed"} }

RecoveryInit ==
    /\ queue \in { <<e>> : e \in Leftover }
    /\ nextId = 2
    /\ processingIds = {}
    /\ tasks = EmptyBag
    /\ timers = EmptyBag
    /\ replays = IF getPendingItems(queue) = <<>> THEN <<>>
                 ELSE <<[items |-> Held(getPendingItems(queue)),
                         pc |-> "sleep"]>>
    /\ calls = <<>>
    /\ filter = {}
    /\ now = 0
    /\ events = 0
    /\ saveResults = [i \in Ids |->
                        [ok |-> 0,
                         fail |-> IF i = 1 /\ queue[1].status = "failed"
                                  THEN 1 ELSE 0]]
    /\ skipped = {}
    /\ recovery = LeftAtStart(queue)
    /\ missed = {}
    /\ scheduled = [i \in Ids |-> 0]
    /\ surface = NoSurface

RecoverySpec == RecoveryInit /\ [][Next]_vars

----------------------------------------------------------------------------
\* handleSyncState (SYNC_STATE, and the STATE_UPDATE broadcasts).

\* (Mutant of handleSyncState: the first ten entries instead of the last.)
handleSyncState_FirstTen(q) ==
    [pendingCount |->
        Len(SelectSeq(q, LAMBDA e : e.status = "pending" \/ e.status = "saving")),
     recentSaves |->
        [i \in 1..(IF Len(q) > RECENT_SAVES THEN RECENT_SAVES ELSE Len(q)) |->
            [id |-> q[i].id,
             text |-> q[i].payload.text,
             status |-> IF q[i].status = "saving" THEN "pending"
                        ELSE q[i].status]]]

\* String.prototype.slice(0, n)
SliceText(text, n) == Text(text.body, IF text.len < n THEN text.len ELSE n)

\* The summary computed of the queue q. (sourceDomain is copied from the
\* payload and left out here, as in the payload of the model.)
handleSyncState(q) ==
    [pendingCount |->
        Len(SelectSeq(q, LAMBDA e : e.status = "pending" \/ e.status = "saving")),
     recentSaves |->
        LET start == IF Len(q) - RECENT_SAVES > 0
                     THEN Len(q) - RECENT_SAVES ELSE 0
        IN  [i \in 1..(Len(q) - start) |->
                LET item == q[start + i]
                IN  [id |-> item.id,
                     text |-> SliceText(item.payload.text, TEXT_PREVIEW),
                     status |-> IF item.status = "saving" THEN "pending"
                                ELSE item.status]]]

\* SYNC_STATE arrives and is answered with handleSyncState(). Nothing is
\* written, so one query per behaviour shows all there is to see.
SyncState ==
    /\ events = 0
    /\ events' = events + 1
    /\ UNCHANGED <<queue, nextId, processingIds, tasks, timers, replays,
                   calls, filter, now, saveResults, skipped>>
    /\ UNCHANGED <<recovery, missed, scheduled>>
    /\ UNCHANGED surface

\* Queues of up to MaxSummaryQueue entries in any mix of statuses, as a
\* worker with room for them can hold: entry i has id i.
SummaryQueues ==
    UNION { [1..n -> {"pending", "saving", "failed"}] : n \in 0..MaxSummaryQueue }

SummaryInit ==
    /\ \E sts \in SummaryQueues :
         queue = [i \in DOMAIN sts |->
                    [NewItem(i, Text("b", MAX_SELECTION_LENGTH),
                             "https://example.com/a")
                       EXCEPT !.status = sts[i],
                              !.lastError = IF sts[i] = "failed"
                                            THEN "recorded" ELSE NoError]]
    /\ nextId = Len(queue) + 1
    /\ processingIds = {}
    /\ tasks = EmptyBag
    /\ timers = EmptyBag
    /\ replays = <<>>
    /\ calls = <<>>
    /\ filter = {}
    /\ now = 0
    /\ events = 0
    /\ saveResults = [i \in Ids |-> [ok |-> 0, fail |-> 0]]
    /\ skipped = {}
    /\ recovery = <<>>
    /\ missed = {}
    /\ scheduled = [i \in Ids |-> 0]
    /\ surface = NoSurface

SummaryNext == SyncState

SummarySpec == SummaryInit /\ [][SummaryNext]_vars

----------------------------------------------------------------------------
\* The capture surface (src/extension/content/selection-listener.ts): the
\* response to its SAVE_SNIPPET and the SAVE_RESULT listener. The messages
\* it receives are arbitrary, except that a pending response carries the id
\* enqueue has just handed out.

\* (Mutant of the SAVE_RESULT listener: the queueId is not forgotten.)
SurfaceResult_Remembers(queueId, success) ==
    /\ events < MaxMessages
    /\ events' = events + 1
    /\ surface' = IF queueId # 0 /\ queueId \in surface.pendingSaves
                  THEN [surface EXCEPT
                          !.reactions[queueId] = @ + 1,
                          !.button = IF success THEN "success" ELSE "error"]
                  ELSE surface
    /\ UNCHANGED <<queue, nextId, processingIds, tasks, timers, replays,
                   calls, filter, now, saveResults, skipped, recovery, missed,
                   scheduled>>

\* saveSelection: the response to SAVE_SNIPPET arrives. status "pending"
\* comes with the queueId of the new entry; any other response (an error, or
\* none) is shown on the button and remembered nowhere.
SurfaceResponse(status) ==
    /\ events < MaxMessages
    /\ events' = events + 1
    /\ IF status = "pending"
       THEN /\ nextId \in Ids
            /\ nextId' = nextId + 1
            /\ surface' = [surface EXCEPT
                              !.pendingSaves = @ \cup {nextId},
                              !.button = "saving"]
       ELSE /\ surface' = [surface EXCEPT !.button = "error"]
            /\ UNCHANGED nextId
    /\ UNCHANGED <<queue, processingIds, tasks, timers, replays, calls,
                   filter, now, saveResults, skipped, recovery, missed,
                   scheduled>>

\* A SAVE_RESULT message arrives (queueId 0: the message has none).
SurfaceResult(queueId, success) ==
    /\ events < MaxMessages
    /\ events' = events + 1
    /\ surface' = IF queueId # 0 /\ queueId \in surface.pendingSaves
                  THEN [surface EXCEPT
                          !.pendingSaves = @ \ {queueId},
                          !.reactions[queueId] = @ + 1,
                          !.button = IF success THEN "success" ELSE "error"]
                  ELSE surface
    /\ UNCHANGED <<queue, nextId, processingIds, tasks, timers, replays,
                   calls, filter, now, saveResults, skipped, recovery, missed,
                   scheduled>>

SurfaceNext ==
    \/ \E status \in {"pending", "error", "none"} : SurfaceResponse(status)
    \/ \E queueId \in {0} \cup Ids, success \in BOOLEAN :
         SurfaceResult(queueId, success)

SurfaceSpec == Init /\ [][SurfaceNext]_vars

----------------------------------------------------------------------------
\* Properties.

\* Number of processQueueItem invocations for id that passed the guard and
\* have not reached the end of the finally block.
Underway(id) ==
    BagCardinality([t \in { x \in BagToSet(tasks) : x.id = id } |-> tasks[t]])

\* A trigger of processQueueItem for id: a retry timer, RETRY_FAILED, or a
\* replay arriving at an item with that id.
Trigger(id) ==
    \/ TimerFire(id)
    \/ ManualRetry(id)
    \/ \E r \in DOMAIN replays :
         /\ Head(replays[r].items).id = id
         /\ ReplayWake(r)

\* C1: at most one delivery attempt is underway for any entry id, and a
\* trigger for an id that is in processingIds changes no stored entry, starts
\* no attempt (so no remote write) and broadcasts nothing.
C1_SingleAttempt ==
    [][ /\ \A id \in Ids : Underway(id)' <= 1
        /\ \A id \in Ids :
             (id \in processingIds /\ Trigger(id))
                => UNCHANGED <<queue, tasks, processingIds, saveResults>>
      ]_vars

\* A trigger was refused for an id whose attempt is still underway.
C1_Witness ==
    \E id \in skipped : id \in processingIds /\ Underway(id) = 1

\* C2: an entry with a success SAVE_RESULT is absent from the queue, and no
\* queueId ever gets a second success SAVE_RESULT.
C2_ExactlyOneSuccess ==
    \A id \in Ids :
        /\ saveResults[id].ok <= 1
        /\ saveResults[id].ok >= 1 => id \notin QueueIds(queue)

\* The attempt t ends in failure on the answer r.
FailedAttempt(t, r) == StepRetry(t, r) \/ StepFail(t, r)

\* C3: an attempt answered with HTTP 500 returns the entry to pending with
\* one more retry counted and a timer scheduled while the entry has fewer
\* than MAX_RETRIES retries, and otherwise marks it failed and broadcasts the
\* failure: no fewer and no more than MAX_RETRIES retries.
C3_RetriesOn500 ==
    [][ \A t \in BagToSet(tasks), r \in Responses :
          ( /\ r.kind = "http" /\ r.status = 500
            /\ t.id \in QueueIds(queue)
            /\ FailedAttempt(t, r) )
          => LET before == Entry(queue, t.id)
                 after  == Entry(queue', t.id)
             IN  IF before.retryCount < MAX_RETRIES
                 THEN /\ after.status = "pending"
                      /\ after.retryCount = before.retryCount + 1
                      /\ CopiesIn(t.id, timers') = CopiesIn(t.id, timers) + 1
                      /\ saveResults' = saveResults
                 ELSE /\ after.status = "failed"
                      /\ saveResults'[t.id].fail = saveResults[t.id].fail + 1
                      /\ timers' = timers
      ]_vars

\* C4: when the first remote write of an entry is answered with HTTP 400 the
\* entry becomes failed in that attempt with retryCount 0, no timer is
\* scheduled and one failure SAVE_RESULT is broadcast.
C4_TerminalOn400 ==
    [][ \A t \in BagToSet(tasks), r \in Responses :
          ( /\ r.kind = "http" /\ r.status = 400
            /\ t.id \in QueueIds(queue)
            /\ Entry(queue, t.id).retryCount = 0
            /\ saveResults[t.id] = [ok |-> 0, fail |-> 0]
            /\ FailedAttempt(t, r) )
          => /\ Entry(queue', t.id).status = "failed"
             /\ Entry(queue', t.id).retryCount = 0
             /\ timers' = timers
             /\ saveResults'[t.id].fail = 1
      ]_vars

\* C5: a failed attempt is classified retryable exactly when the failure is
\* a transport failure or a response with status >= 500.
C5_Classification ==
    [][ \A t \in BagToSet(tasks), r \in Responses :
          FailedAttempt(t, r)
          => ( isRetryableError(ThrownError(r))
                 <=> (r.kind = "throw" \/ r.status >= 500) )
      ]_vars

\* C6: an entry leaves the queue only in the step that follows a successful
\* remote write of that entry, or by CLEAR_FAILED for its id.
C6_NoSilentDrop ==
    [][ \A id \in QueueIds(queue) \ QueueIds(queue') :
          \/ Discard(id)
          \/ \E t \in BagToSet(tasks), r \in Responses :
               t.id = id /\ StepSuccess(t, r)
      ]_vars

\* An entry went through every retry, was marked failed, survived a restart
\* of the worker and is still stored.
C6_Witness ==
    \E i \in 1..Len(queue) :
        /\ queue[i].status = "failed"
        /\ queue[i].retryCount = MAX_RETRIES
        /\ saveResults[queue[i].id].fail >= 1
        /\ \E k \in DOMAIN calls :
             calls[k].reply.queueId = queue[i].id /\ ~calls[k].live

\* The worker that accepted the entry is still the running one.
SameSession(id) ==
    \E k \in DOMAIN calls : calls[k].reply.queueId = id /\ calls[k].live

\* C7: within the session that accepted it, a failed entry that nothing is
\* working on stays failed, with no attempt started for it, in every step
\* that is not RETRY_FAILED or CLEAR_FAILED for its id.
C7_FailedIsTerminal ==
    [][ \A id \in QueueIds(queue) :
          ( /\ Entry(queue, id).status = "failed"
            /\ Underway(id) = 0
            /\ SameSession(id)
            /\ ~ManualRetry(id) /\ ~Discard(id) /\ ~Restart )
          => /\ id \in QueueIds(queue')
             /\ Entry(queue', id).status = "failed"
             /\ Underway(id)' = 0
      ]_vars

\* The entry with this id has reached a terminal outcome: removed, or
\* marked failed with its failure SAVE_RESULT broadcast.
Resolved(id) ==
    \/ id \notin QueueIds(queue)
    \/ /\ Entry(queue, id).status = "failed"
       /\ saveResults[id].fail >= 1

\* C8: every entry in the queue eventually reaches a terminal outcome, also
\* across restarts of the worker.
C8_EventuallyResolved ==
    \A id \in Ids : (id \in QueueIds(queue)) ~> Resolved(id)

\* The reply a SAVE_SNIPPET call has so far.
LastCall(cs) == cs[Len(cs)]

\* C9: a capture whose text is empty, shorter than 10 or longer than 10000
\* characters is refused with an error and changes neither the queue nor the
\* duplicate filter, starts no attempt and broadcasts nothing; a text of
\* exactly 10 or exactly 10000 characters is not refused by the validation.
C9_Validation ==
    [][ \A text \in Texts, src \in Sources :
          Submit(text, src)
          => IF text.len < 10 \/ text.len > 10000
             THEN /\ LastCall(calls').reply.status = "error"
                  /\ LastCall(calls').pc = "done"
                  /\ UNCHANGED <<queue, nextId, filter, processingIds, tasks,
                                 timers, replays, saveResults>>
             ELSE \/ LastCall(calls').pc = "enq"
                  \/ LastCall(calls').reply.error
                        = "This snippet was already saved recently"
      ]_vars

\* One capture beyond a limit was refused and one capture exactly at a limit
\* went on to the duplicate check.
C9_Witness ==
    /\ \E k \in DOMAIN calls :
         /\ calls[k].text.len \in {0, 9, 10001}
         /\ calls[k].reply.status = "error"
    /\ \E k \in DOMAIN calls :
         /\ calls[k].text.len \in {10, 10000}
         /\ calls[k].pc = "enq"

\* The calls i and j carry the same valid (text, source) pair, were received
\* by the running worker within the recency window of each other, and no
\* third call of that worker carries the pair.
TwoSubmits(i, j) ==
    /\ i < j
    /\ calls[i].text = calls[j].text /\ calls[i].src = calls[j].src
    /\ ValidationError(calls[i].text) = NoError
    /\ calls[i].live /\ calls[j].live
    /\ calls[j].at - calls[i].at < DUPLICATE_WINDOW
    /\ \A k \in DOMAIN calls \ {i, j} :
         ~(calls[k].live /\ calls[k].text = calls[i].text
                         /\ calls[k].src = calls[i].src)

\* C10: of two submits of the same (text, source) pair within the recency
\* window, once both are answered, exactly one is accepted with a queueId
\* and the other is refused as a duplicate.
C10_ExactlyOneAccepted ==
    \A i, j \in DOMAIN calls :
        ( /\ TwoSubmits(i, j)
          /\ calls[i].pc = "done" /\ calls[j].pc = "done" )
        => \E a, b \in {i, j} :
             /\ a # b
             /\ calls[a].reply.status = "pending"
             /\ calls[a].reply.queueId \in Ids
             /\ calls[b].reply.error = "This snippet was already saved recently"

\* C11: a submit that reaches enqueue while the queue holds MAX_QUEUE_SIZE
\* entries is answered with the capacity error and no queueId; the stored
\* entries stay as they are, no id is handed out, no attempt is started and
\* nothing is broadcast.
C11_CapacityError ==
    [][ \A k \in DOMAIN calls :
          (Len(queue) >= MAX_QUEUE_SIZE /\ SubmitEnqueue(k))
          => /\ calls'[k].reply.status = "error"
             /\ calls'[k].reply.error = "Queue is full"
             /\ calls'[k].reply.queueId = 0
             /\ calls'[k].pc = "done"
             /\ UNCHANGED <<queue, nextId, processingIds, tasks, timers,
                            saveResults>>
      ]_vars

\* A valid capture that is no duplicate was refused with the capacity error
\* while the queue held MAX_QUEUE_SIZE entries, which are still there.
C11_Witness ==
    /\ Len(queue) = MAX_QUEUE_SIZE
    /\ \E k \in DOMAIN calls :
         /\ calls[k].reply.error = "Queue is full"
         /\ ValidationError(calls[k].text) = NoError
         /\ \A i \in 1..Len(queue) : queue[i].id < nextId
         /\ nextId = MAX_QUEUE_SIZE + 1

\* C12: the queue never holds more than MAX_QUEUE_SIZE entries.
C12_Bounded == Len(queue) <= MAX_QUEUE_SIZE

\* Two submits were both past the duplicate check while the queue had one
\* free slot: the later one took it, the earlier one has yet to enqueue.
C12_Witness ==
    /\ Len(queue) = MAX_QUEUE_SIZE
    /\ \E i, j \in DOMAIN calls :
         /\ i < j
         /\ calls[i].pc = "enq"
         /\ calls[j].reply.status = "pending"
         /\ calls[j].reply.queueId = queue[Len(queue)].id

\* C13: for an entry that the worker found pending or failed when it
\* started, the replays of that worker start at most one delivery attempt
\* (the claim's "not two"), also when an online event starts a second replay
\* while the first is running.
C13_ReplayedOnce ==
    \A id \in DOMAIN recovery : recovery[id] <= 1

\* C14: a retry timer that fires for an id that is no longer in the queue
\* (the entry was discarded after the timer was set) starts no attempt,
\* changes no stored entry and broadcasts nothing.
C14_TimerAfterDiscard ==
    [][ \A id \in Ids :
          (id \notin QueueIds(queue) /\ TimerFire(id))
          => UNCHANGED <<queue, nextId, processingIds, tasks, replays,
                         saveResults, scheduled>>
      ]_vars

\* The retry timer of an entry fired after CLEAR_FAILED had removed the
\* entry (it was never delivered), and no attempt is underway for it.
C14_Witness ==
    \E id \in Ids :
        /\ <<"timer", id>> \in missed
        /\ id \in Issued
        /\ saveResults[id].ok = 0
        /\ Underway(id) = 0

\* C15: an id that enqueue has handed out and that is no longer in the queue
\* is in the queue in no later state: a status update for it is a no-op and
\* no other operation writes the entry back.
C15_NeverReinserted ==
    [][ \A id \in Issued :
          id \notin QueueIds(queue) => id \notin QueueIds(queue')
      ]_vars

\* An attempt was underway when its entry was discarded; the status update
\* it issued when the remote write failed found no entry, and the entry is
\* still gone.
C15_Witness ==
    \E id \in Issued :
        /\ <<"updateItemStatus", id>> \in missed
        /\ saveResults[id].ok = 0
        /\ id \notin QueueIds(queue)

\* C16: a failed attempt whose failure is a transport failure or a 5xx, for
\* an entry with retryCount < MAX_RETRIES, broadcasts no SAVE_RESULT; and a
\* failure SAVE_RESULT for an id is broadcast only in the step that takes
\* the stored entry with that id from saving to failed.
C16_FailureOnlyWhenFailed ==
    [][ /\ \A t \in BagToSet(tasks), r \in Responses :
             ( /\ r.kind = "throw" \/ r.status >= 500
               /\ t.id \in QueueIds(queue)
               /\ Entry(queue, t.id).retryCount < MAX_RETRIES
               /\ FailedAttempt(t, r) )
             => saveResults' = saveResults
        /\ \A id \in Ids :
             saveResults'[id].fail > saveResults[id].fail
             => /\ id \in QueueIds(queue) /\ id \in QueueIds(queue')
                /\ Entry(queue, id).status = "saving"
                /\ Entry(queue', id).status = "failed"
      ]_vars

\* C17: the delay of the timer set after a retryable failure is
\* min(INITIAL_RETRY_DELAY_MS * 2^k, MAX_RETRY_DELAY_MS) with k the stored
\* retryCount of the entry during the failed attempt; it is not smaller than
\* the delay of the entry's previous retry timer and not larger than
\* MAX_RETRY_DELAY_MS.
C17_BackoffDelay ==
    [][ \A t \in BagToSet(tasks), r \in Responses :
          (t.id \in QueueIds(queue) /\ StepRetry(t, r))
          => LET k == Entry(queue, t.id).retryCount
                 expected ==
                     IF 1000 * (2 ^ k) < 30000 THEN 1000 * (2 ^ k) ELSE 30000
             IN  /\ scheduled'[t.id] = expected
                 /\ scheduled'[t.id] >= scheduled[t.id]
                 /\ scheduled'[t.id] <= MAX_RETRY_DELAY_MS
      ]_vars

\* C18: an entry enters the queue with retryCount 0; in every step that
\* keeps it, its retryCount does not decrease, and it increases (by one)
\* exactly in the steps in which a failed attempt returns the entry to
\* pending.
C18_RetryCountMonotone ==
    [][ /\ \A id \in QueueIds(queue') \ QueueIds(queue) :
             Entry(queue', id).retryCount = 0
        /\ \A id \in QueueIds(queue) \cap QueueIds(queue') :
             LET before == Entry(queue, id).retryCount
                 after  == Entry(queue', id).retryCount
                 retried ==
                     \E t \in BagToSet(tasks), r \in Responses :
                         t.id = id /\ StepRetry(t, r)
             IN  /\ after >= before
                 /\ after > before <=> retried
                 /\ retried => /\ after = before + 1
                                /\ Entry(queue', id).status = "pending"
      ]_vars

\* An entry went through MAX_RETRIES retryable failures and waits for its
\* next retry.
C18_Witness ==
    \E i \in 1..Len(queue) :
        /\ queue[i].retryCount = MAX_RETRIES
        /\ queue[i].status = "pending"
        /\ BagIn(queue[i].id, timers)

\* The status changes an entry may go through while it stays in the queue.
AllowedTransitions ==
    { <<"pending", "saving">>, <<"saving", "pending">>,
      <<"saving", "failed">>, <<"failed", "saving">> }

C20_Summary ==
    [][ SyncState
        => LET s == handleSyncState(queue)
               n == IF Len(queue) < 10 THEN Len(queue) ELSE 10
           IN  /\ s.pendingCount =
                    Cardinality({ i \in 1..Len(queue) :
                                    queue[i].status \in {"pending", "saving"} })
               /\ Len(s.recentSaves) = n
               /\ \A j \in 1..n :
                    LET e == queue[Len(queue) - n + j]
                    IN  /\ s.recentSaves[j].id = e.id
                        /\ s.recentSaves[j].status =
                             IF e.status = "saving" THEN "pending" ELSE e.status
               /\ UNCHANGED <<queue, nextId, processingIds, tasks, timers,
                              replays, filter, saveResults>>
      ]_vars

\* A summary was asked of a queue longer than ten entries that holds a
\* failed entry outside the last ten and a saving entry within them.
C20_Witness ==
    /\ events >= 1
    /\ Len(queue) > RECENT_SAVES
    /\ queue[1].status = "failed"
    /\ queue[Len(queue)].status = "saving"

\* C21: every delivery attempt that is underway ends: its id leaves
\* processingIds.
C21_AttemptTerminates ==
    \A id \in Ids : (id \in processingIds) ~> (id \notin processingIds)

\* C22: when a success SAVE_RESULT is broadcast its entry is no longer
\* stored; when a failure SAVE_RESULT is broadcast its entry, if stored, is
\* marked failed; so no SAVE_RESULT is broadcast for an entry stored as
\* pending or saving. The STATE_UPDATE of an attempt is computed after its
\* SAVE_RESULT, from a store that shows the entry removed or failed.
C22_StoreBeforeBroadcast ==
    [][ /\ \A id \in Ids :
             /\ saveResults'[id].ok > saveResults[id].ok
                  => id \notin QueueIds(queue')
             /\ saveResults'[id].fail > saveResults[id].fail
                  => \/ id \notin QueueIds(queue')
                     \/ Entry(queue', id).status = "failed"
             /\ saveResults'[id] # saveResults[id]
                  => \A i \in 1..Len(queue') :
                        queue'[i].id = id
                        => queue'[i].status \notin {"pending", "saving"}
        /\ \A t \in BagToSet(tasks) :
             StepSync(t)
             => /\ saveResults[t.id].ok + saveResults[t.id].fail >= 1
                /\ \A j \in 1..Len(handleSyncState(queue).recentSaves) :
                     LET shown == handleSyncState(queue).recentSaves[j]
                     IN  shown.id = t.id
                         => /\ shown.status = "failed"
                            /\ Entry(queue, t.id).status = "failed"
      ]_vars

\* An attempt ended in final failure: the entry is stored as failed, its
\* failure SAVE_RESULT was broadcast, and the attempt is about to compute
\* its STATE_UPDATE.
C22_Witness ==
    \E t \in Running("sync") :
        /\ t.id \in QueueIds(queue)
        /\ Entry(queue, t.id).status = "failed"
        /\ saveResults[t.id].fail = 1
        /\ saveResults[t.id].ok = 0

\* C23: RETRY_FAILED for an entry stored as failed or pending starts one new
\* delivery attempt; for an entry stored as saving or an id that is not in
\* the queue it starts none and changes nothing; an attempt started with
\* retryCount >= MAX_RETRIES that fails marks the entry failed with one
\* failure SAVE_RESULT and schedules no timer.
C23_ManualRetry ==
    [][ /\ \A id \in Ids :
             ManualRetry(id)
             => IF /\ id \in QueueIds(queue)
                   /\ Entry(queue, id).status \in {"failed", "pending"}
                THEN Underway(id)' = Underway(id) + 1
                ELSE UNCHANGED <<queue, tasks, processingIds, timers,
                                 saveResults>>
        /\ \A t \in BagToSet(tasks), r \in Responses :
             ( /\ t.rc >= MAX_RETRIES
               /\ t.id \in QueueIds(queue)
               /\ FailedAttempt(t, r) )
             => /\ Entry(queue', t.id).status = "failed"
                /\ saveResults'[t.id].fail = saveResults[t.id].fail + 1
                /\ timers' = timers
      ]_vars

\* C24: the surface reacts to a SAVE_RESULT only when its queueId is in
\* pendingSaves, where only the ids of pending responses to its own submits
\* are put; it forgets the id in the same step, so that it reacts at most
\* once per queueId and every other SAVE_RESULT changes nothing on it.
C24_ReactsOnce ==
    [][ /\ \A id \in Ids : surface'.reactions[id] <= 1
        /\ \A queueId \in {0} \cup Ids, success \in BOOLEAN :
             SurfaceResult(queueId, success)
             => IF queueId \in surface.pendingSaves
                THEN /\ queueId < nextId
                     /\ surface.reactions[queueId] = 0
                     /\ surface'.reactions[queueId] = 1
                     /\ queueId \notin surface'.pendingSaves
                     /\ surface'.button =
                          IF success THEN "success" ELSE "error"
                ELSE surface' = surface
      ]_vars

\* The surface reacted to the SAVE_RESULT of one of its submits, has
\* forgotten the id, and a later message found nothing to react to.
C24_Witness ==
    \E id \in Ids :
        /\ surface.reactions[id] = 1
        /\ id \notin surface.pendingSaves
        /\ events >= 3
        /\ nextId = 2

C26_Released ==
    [][ /\ \A id \in Ids : Underway(id)' = 0 => id \notin processingIds'
        /\ \A id \in Ids :
             (id \in processingIds /\ Trigger(id))
             => /\ processingIds' = processingIds
                /\ Underway(id)' = Underway(id)
      ]_vars

\* An attempt ended in an exception of the store (the entry is still stored
\* as saving, in the session that accepted it, with nothing working on it)
\* and its id is released.
C26_Witness ==
    \E i \in 1..Len(queue) :
        /\ queue[i].status = "saving"
        /\ SameSession(queue[i].id)
        /\ Underway(queue[i].id) = 0
        /\ queue[i].id \notin processingIds

\* C27: every entry stored with status saving has its id in processingIds.
C27_SavingIsUnderway ==
    \A i \in 1..Len(queue) :
        queue[i].status = "saving" => queue[i].id \in processingIds

\* C28: the POST of an attempt is sent only for an id whose entry is in the
\* queue.
C28_PostOnlyIfStored ==
    [][ \A t \in BagToSet(tasks) :
          StepSaving(t) => t.id \in QueueIds(queue)
      ]_vars

\* The call k was refused by the full queue, and no other call received by
\* the running worker carries its (text, source) pair.
OnlyRefused(k) ==
    /\ calls[k].live
    /\ calls[k].reply.error = "Queue is full"
    /\ \A j \in DOMAIN calls \ {k} :
         ~(calls[j].live /\ calls[j].text = calls[k].text
                         /\ calls[j].src = calls[k].src)

\* C29: a submit that was refused because the queue was full has left no
\* record of its (text, source) pair in the duplicate filter, so the same
\* pair submitted now would not be refused as a duplicate.
C29_RejectedNotRecorded ==
    \A k \in DOMAIN calls :
        OnlyRefused(k)
        => ~isDuplicate(filter, calls[k].text, calls[k].src, now)

\* C30: at most one retry timer is pending for any id.
C30_OneTimer ==
    \A id \in Ids : CopiesIn(id, timers) <= 1

====
